---- MODULE Spec2Model ----
(***************************************************************************)
(* Model of the command-dispatch core of engine_wrapper:                   *)
(*   Wrapper  (src/include/wrapper.h)  binds a Subject method to the       *)
(*            named-argument calling convention of Command;                *)
(*   Engine   (src/include/engine.h)   owns the name -> Command map.       *)
(* The code is single threaded: every operation is one atomic action.      *)
(* A caller issues one operation (pc "ready" -> "returned"), the outcome   *)
(* of which is kept in `last` until the caller drops it (Return).          *)
(***************************************************************************)
EXTENDS Integers, Sequences, FiniteSets, TLC

VARIABLES
    commands,   \* Engine::commands : std::map<std::string, std::unique_ptr<Command>>
    last,       \* the operation the caller issued last, its inputs and outcome
    pc          \* position of the caller: "ready" | "returned"

vars == <<commands, last, pc>>

---------------------------------------------------------------------------
(* Bounds of the model *)

\* longest argument list passed to execute / execute_as
MaxArgs == 2
\* longest defaults list passed to a Wrapper constructor
MaxDefaults == 2

---------------------------------------------------------------------------
(* Type tags and erased values (std::any)                                  *)

T_int    == "int"       \* typeid(int).name()
T_double == "double"    \* typeid(double).name()
T_none   == "none"      \* an empty std::any

MakeAny(t, v) == [tag |-> t, val |-> v]
NoValue == MakeAny(T_none, 0)

\* std::any_cast<T>(a) succeeds iff a holds exactly a T
any_cast_ok(t, a) == a.tag = t

\* value-initialised element of std::tuple<Args...> (int 0, double 0.0)
DefaultConstructed(t) == 0

\* std::pair<std::string, std::any>
Pair(n, a) == [first |-> n, second |-> a]

---------------------------------------------------------------------------
(* The receiver class Subject                                              *)

\* Subject subj(5): the private field `value` of the receiver
SubjectValue == 5

NullObject == "nullptr"
TheSubject == "subj"
Objects    == {NullObject, TheSubject}

NonConstMethods == {"f0", "f3", "divide"}
ConstMethods    == {"getValue", "multiplyBy"}
Methods         == NonConstMethods \cup ConstMethods

\* Args... of each bound method, in signature order
ArgTypesOf(m) ==
    CASE m = "f0"         -> << >>
      [] m = "getValue"   -> << >>
      [] m = "multiplyBy" -> <<T_int>>
      [] m = "f3"         -> <<T_int, T_int>>
      [] m = "divide"     -> <<T_double, T_double>>

\* ReturnType of each bound method
ReturnTypeOf(m) == IF m = "divide" THEN T_double ELSE T_int

\* sizeof...(Args)
ParamCount(m) == Len(ArgTypesOf(m))

\* The native method applied to the tuple t of native arguments.
\* divide: on the doubles of the model (0.0 and 1.0) the quotient is exact.
Invoke(m, t) ==
    CASE m = "f0"         -> [threw |-> FALSE, val |-> 42]
      [] m = "getValue"   -> [threw |-> FALSE, val |-> SubjectValue]
      [] m = "multiplyBy" -> [threw |-> FALSE, val |-> SubjectValue * t[1]]
      [] m = "f3"         -> [threw |-> FALSE, val |-> t[1] * t[2]]
      [] m = "divide"     -> IF t[2] = 0
                               THEN [threw |-> TRUE,  val |-> 0]
                               ELSE [threw |-> FALSE, val |-> t[1] \div t[2]]

---------------------------------------------------------------------------
(* Outcome of a call: the value returned or the std::runtime_error thrown  *)

OK                     == "ok"
ConfigurationError     == "ConfigurationError"
ValidationError        == "ValidationError"
ConflictError          == "ConflictError"
NotFoundError          == "NotFoundError"
DuplicateArgumentError == "DuplicateArgumentError"
MissingArgumentError   == "MissingArgumentError"
TypeMismatchError      == "TypeMismatchError"
NativeError            == "NativeError"      \* thrown by the bound method itself
BadAnyCast             == "bad_any_cast"     \* an uncaught std::bad_any_cast

\* kind   : OK or the kind of the error
\* msg    : the fixed prefix of what()
\* param  : the parameter / argument / command name the message carries
\* expected, actual : the type names a type-mismatch message carries
\* value  : the std::any returned
\* calls  : how often the bound native method was invoked
\* bound  : how many tuple positions fillArg had reconciled when the call ended
\* native : the native arguments the method was invoked with
NoOutcome ==
    [kind |-> "none", msg |-> "", param |-> "", expected |-> "", actual |-> "",
     value |-> NoValue, calls |-> 0, bound |-> 0, native |-> << >>]

Throw(kind, msg, param) ==
    [NoOutcome EXCEPT !.kind = kind, !.msg = msg, !.param = param]

---------------------------------------------------------------------------
(* Wrapper<T, ReturnType, Args...>                                         *)

\* std::to_string of a size_t
Digit(d) == <<"0", "1", "2", "3", "4", "5", "6", "7", "8", "9">>[d + 1]

RECURSIVE to_string(_)
to_string(i) == IF i < 10 THEN Digit(i) ELSE to_string(i \div 10) \o Digit(i % 10)

\* a null std::unique_ptr<Command>
NullCommand == [isNull |-> TRUE]

\* the names of a vector of pairs, in order
Firsts(v) == [i \in 1..Len(v) |-> v[i].first]

\* Wrapper::initTypes : one type name per Args, in signature order
initTypes(m) == ArgTypesOf(m)

\* Wrapper::initParamInfo : the parameter names come from the defaults when
\* there are any (whose number must be the arity), else they are generated.
initParamInfo_acceptsLonger(m, defaults) ==
    IF defaults # << >>
      THEN IF Len(defaults) < ParamCount(m)
             THEN [threw |-> TRUE, paramNames |-> Firsts(defaults),
                   paramTypes |-> << >>, returnTypeName |-> ""]
             ELSE [threw |-> FALSE, paramNames |-> Firsts(defaults),
                   paramTypes |-> initTypes(m), returnTypeName |-> ReturnTypeOf(m)]
      ELSE [threw |-> FALSE,
            paramNames |-> [i \in 1..ParamCount(m) |-> "param" \o to_string(i)],
            paramTypes |-> initTypes(m), returnTypeName |-> ReturnTypeOf(m)]

initParamInfo_zeroBased(m, defaults) ==
    IF defaults # << >>
      THEN IF Len(defaults) # ParamCount(m)
             THEN [threw |-> TRUE, paramNames |-> Firsts(defaults),
                   paramTypes |-> << >>, returnTypeName |-> ""]
             ELSE [threw |-> FALSE, paramNames |-> Firsts(defaults),
                   paramTypes |-> initTypes(m), returnTypeName |-> ReturnTypeOf(m)]
      ELSE [threw |-> FALSE,
            paramNames |-> [i \in 1..ParamCount(m) |-> "param" \o to_string(i - 1)],
            paramTypes |-> initTypes(m), returnTypeName |-> ReturnTypeOf(m)]

initParamInfo_rejectsRepeatedNames(m, defaults) ==
    IF defaults # << >>
      THEN IF Len(defaults) # ParamCount(m)
                \/ \E i, j \in 1..Len(defaults) :
                       i < j /\ defaults[i].first = defaults[j].first
             THEN [threw |-> TRUE, paramNames |-> Firsts(defaults),
                   paramTypes |-> << >>, returnTypeName |-> ""]
             ELSE [threw |-> FALSE, paramNames |-> Firsts(defaults),
                   paramTypes |-> initTypes(m), returnTypeName |-> ReturnTypeOf(m)]
      ELSE [threw |-> FALSE,
            paramNames |-> [i \in 1..ParamCount(m) |-> "param" \o to_string(i)],
            paramTypes |-> initTypes(m), returnTypeName |-> ReturnTypeOf(m)]

initParamInfo(m, defaults) ==
    IF defaults # << >>
      THEN IF Len(defaults) # ParamCount(m)
             THEN [threw |-> TRUE, paramNames |-> Firsts(defaults),
                   paramTypes |-> << >>, returnTypeName |-> ""]
             ELSE [threw |-> FALSE, paramNames |-> Firsts(defaults),
                   paramTypes |-> initTypes(m), returnTypeName |-> ReturnTypeOf(m)]
      ELSE [threw |-> FALSE,
            \* "param" + std::to_string(i + 1) for i = 0 .. paramCount - 1
            paramNames |-> [i \in 1..ParamCount(m) |-> "param" \o to_string(i)],
            paramTypes |-> initTypes(m), returnTypeName |-> ReturnTypeOf(m)]

\* Wrapper::validateDefaultsImpl : the fold visits Is = 0 .. n-1 in order and
\* the first default that does not any_cast to its Args type throws. The
\* result is the 1-based position that threw, 0 when none did.
validateDefaultsImpl_firstOnly(m, defaults) ==
    IF ParamCount(m) > 0 /\ ~any_cast_ok(ArgTypesOf(m)[1], defaults[1].second)
      THEN 1 ELSE 0

validateDefaultsImpl(m, defaults) ==
    LET bad == {i \in 1..ParamCount(m) :
                   ~any_cast_ok(ArgTypesOf(m)[i], defaults[i].second)}
    IN  IF bad = {} THEN 0 ELSE CHOOSE i \in bad : \A j \in bad : i <= j

\* A constructed adapter
MakeWrapper(obj, m, defaults, info) ==
    [object |-> obj, method |-> m, defaults |-> defaults,
     paramNames |-> info.paramNames, paramTypes |-> info.paramTypes,
     returnTypeName |-> info.returnTypeName]

\* Wrapper::Wrapper (both constructors run the same steps): the outcome and
\* the adapter built, NullCommand when the constructor threw.
Wrapper(obj, m, defaults) ==
    IF obj = NullObject
      THEN [out |-> Throw(ConfigurationError,
                          "Wrapper: object pointer cannot be null", ""),
            command |-> NullCommand]
      ELSE
        LET info == initParamInfo(m, defaults) IN
        IF info.threw
          THEN [out |-> Throw(ConfigurationError, "Parameter count mismatch",
                              to_string(ParamCount(m))),
                command |-> NullCommand]
          ELSE
            LET bad == IF ParamCount(m) > 0 /\ defaults # << >>
                         THEN validateDefaultsImpl(m, defaults) ELSE 0
            IN  IF bad # 0
                  THEN [out |-> [Throw(ConfigurationError,
                                       "Default value type mismatch for parameter",
                                       info.paramNames[bad])
                                 EXCEPT !.bound = bad - 1],
                        command |-> NullCommand]
                  ELSE [out |-> [NoOutcome EXCEPT !.kind = OK],
                        command |-> MakeWrapper(obj, m, defaults, info)]

---------------------------------------------------------------------------
(* Wrapper::execute                                                        *)

\* The duplicate scan of Wrapper::execute: ++argCount[arg.first] > 1 is first
\* true at the first entry whose name occurred before it. The result is the
\* 1-based index of that entry, 0 when no name repeats.
findDuplicate_offByOne(args) ==
    LET dup == {j \in 1..Len(args) :
                   Cardinality({i \in 1..(j - 1) : args[i].first = args[j].first}) > 1}
    IN  IF dup = {} THEN 0 ELSE CHOOSE j \in dup : \A k \in dup : j <= k

findDuplicate(args) ==
    LET dup == {j \in 1..Len(args) : \E i \in 1..(j - 1) : args[i].first = args[j].first}
    IN  IF dup = {} THEN 0 ELSE CHOOSE j \in dup : \A k \in dup : j <= k

findArg_firstEntryOnly(args, n) ==
    LET hit == {j \in 1..Len(args) : j = 1 /\ args[j].first = n}
    IN  IF hit = {} THEN 0 ELSE CHOOSE j \in hit : \A k \in hit : j <= k

\* the first entry of args named n (the loop of fillArg returns at the first
\* match), 0 when there is none
findArg(args, n) ==
    LET hit == {j \in 1..Len(args) : args[j].first = n}
    IN  IF hit = {} THEN 0 ELSE CHOOSE j \in hit : \A k \in hit : j <= k

\* Wrapper::fillArg<I> on the tuple t (I is 1-based here): the tuple after
\* the call, or the error thrown.
fillArg_keepsDefault(w, I, t, args) ==
    LET j == findArg(args, w.paramNames[I]) IN
    IF I > Len(w.paramNames) THEN [threw |-> FALSE, out |-> NoOutcome, tuple |-> t]
    ELSE IF j # 0 /\ w.defaults = << >>
      THEN IF any_cast_ok(ArgTypesOf(w.method)[I], args[j].second)
             THEN [threw |-> FALSE, out |-> NoOutcome,
                   tuple |-> [t EXCEPT ![I] = args[j].second.val]]
             ELSE [threw |-> TRUE, tuple |-> t,
                   out |-> [Throw(TypeMismatchError, "Type mismatch for argument",
                                  w.paramNames[I])
                            EXCEPT !.expected = w.paramTypes[I]]]
    ELSE IF w.defaults = << >>
      THEN [threw |-> TRUE, tuple |-> t,
            out |-> Throw(MissingArgumentError,
                          "Argument not provided and no default value",
                          w.paramNames[I])]
      ELSE [threw |-> FALSE, out |-> NoOutcome, tuple |-> t]

fillArg_zeroFillsMissing(w, I, t, args) ==
    LET j == findArg(args, w.paramNames[I]) IN
    IF I > Len(w.paramNames) THEN [threw |-> FALSE, out |-> NoOutcome, tuple |-> t]
    ELSE IF j # 0
      THEN IF any_cast_ok(ArgTypesOf(w.method)[I], args[j].second)
             THEN [threw |-> FALSE, out |-> NoOutcome,
                   tuple |-> [t EXCEPT ![I] = args[j].second.val]]
             ELSE [threw |-> TRUE, tuple |-> t,
                   out |-> [Throw(TypeMismatchError, "Type mismatch for argument",
                                  w.paramNames[I])
                            EXCEPT !.expected = w.paramTypes[I]]]
    ELSE [threw |-> FALSE, out |-> NoOutcome, tuple |-> t]

fillArg_resolvesBySignature(w, I, t, args) ==
    IF I > Len(w.paramNames) THEN [threw |-> FALSE, out |-> NoOutcome, tuple |-> t]
    ELSE
      LET paramName == "param" \o to_string(I)
          j == findArg(args, paramName)
      IN  IF j # 0
            THEN IF any_cast_ok(ArgTypesOf(w.method)[I], args[j].second)
                   THEN [threw |-> FALSE, out |-> NoOutcome,
                         tuple |-> [t EXCEPT ![I] = args[j].second.val]]
                   ELSE [threw |-> TRUE, tuple |-> t,
                         out |-> [Throw(TypeMismatchError, "Type mismatch for argument",
                                        paramName)
                                  EXCEPT !.expected = w.paramTypes[I]]]
          ELSE IF w.defaults = << >>
            THEN [threw |-> TRUE, tuple |-> t,
                  out |-> Throw(MissingArgumentError,
                                "Argument not provided and no default value",
                                paramName)]
            ELSE [threw |-> FALSE, out |-> NoOutcome, tuple |-> t]

fillArg(w, I, t, args) ==
    IF I > Len(w.paramNames) THEN [threw |-> FALSE, out |-> NoOutcome, tuple |-> t]
    ELSE
      LET paramName == w.paramNames[I]
          j == findArg(args, paramName)
      IN  IF j # 0
            THEN IF any_cast_ok(ArgTypesOf(w.method)[I], args[j].second)
                   THEN [threw |-> FALSE, out |-> NoOutcome,
                         tuple |-> [t EXCEPT ![I] = args[j].second.val]]
                   ELSE [threw |-> TRUE, tuple |-> t,
                         out |-> [Throw(TypeMismatchError, "Type mismatch for argument",
                                        paramName)
                                  EXCEPT !.expected = w.paramTypes[I]]]
          ELSE IF w.defaults = << >>
            THEN [threw |-> TRUE, tuple |-> t,
                  out |-> Throw(MissingArgumentError,
                                "Argument not provided and no default value",
                                paramName)]
            \* the default is already in the tuple
            ELSE [threw |-> FALSE, out |-> NoOutcome, tuple |-> t]

\* the fold ((fillArg<Is>(tupleArgs, args)), ...) from position I on
RECURSIVE fillFrom(_, _, _, _)
fillFrom(w, I, t, args) ==
    IF I > ParamCount(w.method)
      THEN [threw |-> FALSE, out |-> NoOutcome, tuple |-> t, bound |-> I - 1]
      ELSE LET r == fillArg(w, I, t, args)
           IN  IF r.threw
                 THEN [threw |-> TRUE, out |-> r.out, tuple |-> r.tuple, bound |-> I - 1]
                 ELSE fillFrom(w, I + 1, r.tuple, args)

invokeMethod_swallowsError(w, t, bound) ==
    LET r == Invoke(w.method, t) IN
    [NoOutcome EXCEPT !.kind = OK, !.calls = 1, !.bound = bound, !.native = t,
                      !.value = MakeAny(w.returnTypeName, r.val)]

\* return method(object, std::get<Is>(tupleArgs)...) : the one place the
\* bound native method is invoked
invokeMethod(w, t, bound) ==
    LET r == Invoke(w.method, t) IN
    IF r.threw
      THEN [Throw(NativeError, "Division by zero", "")
            EXCEPT !.calls = 1, !.bound = bound, !.native = t]
      ELSE [NoOutcome EXCEPT !.kind = OK, !.calls = 1, !.bound = bound, !.native = t,
                             !.value = MakeAny(w.returnTypeName, r.val)]

\* Wrapper::call
call(w, args) ==
    LET n == ParamCount(w.method) IN
    IF Len(args) < Len(w.paramNames) /\ w.defaults = << >>
      \* the loop throws in its first iteration, at i = args.size()
      THEN Throw(MissingArgumentError, "Missing required argument",
                 w.paramNames[Len(args) + 1])
      ELSE
        LET zero == [i \in 1..n |-> DefaultConstructed(ArgTypesOf(w.method)[i])]
            badDefault == {i \in 1..n : w.defaults # << >> /\
                              ~any_cast_ok(ArgTypesOf(w.method)[i], w.defaults[i].second)}
            init == IF w.defaults # << >>
                      THEN [i \in 1..n |-> w.defaults[i].second.val]
                      ELSE zero
        IN  IF badDefault # {}
              THEN Throw(BadAnyCast, "bad any_cast", "")
              ELSE LET f == fillFrom(w, 1, init, args)
                   IN  IF f.threw
                         THEN [f.out EXCEPT !.bound = f.bound]
                         ELSE invokeMethod(w, f.tuple, f.bound)

\* Wrapper::execute
execute_checksDuplicatesLast(w, args) ==
    LET r == IF ParamCount(w.method) = 0 THEN invokeMethod(w, << >>, 0) ELSE call(w, args)
        d == findDuplicate(args)
    IN  IF r.kind = OK /\ d # 0
          THEN [Throw(DuplicateArgumentError, "Duplicate argument name", args[d].first)
                EXCEPT !.calls = r.calls]
          ELSE r

execute_rejectsUnknownNames(w, args) ==
    LET d == findDuplicate(args)
        unknown == {j \in 1..Len(args) :
                       \A i \in 1..Len(w.paramNames) : w.paramNames[i] # args[j].first}
    IN
    IF d # 0
      THEN Throw(DuplicateArgumentError, "Duplicate argument name", args[d].first)
      ELSE IF unknown # {}
             THEN Throw(ValidationError, "Unknown argument",
                        args[CHOOSE j \in unknown : TRUE].first)
      ELSE IF ParamCount(w.method) = 0
             THEN invokeMethod(w, << >>, 0)
             ELSE call(w, args)

execute(w, args) ==
    LET d == findDuplicate(args) IN
    IF d # 0
      THEN Throw(DuplicateArgumentError, "Duplicate argument name", args[d].first)
      ELSE IF ParamCount(w.method) = 0
             THEN invokeMethod(w, << >>, 0)
             ELSE call(w, args)

\* Command::getParamNames / getParamTypes / getReturnType
getParamNames(w) == w.paramNames
getParamTypes(w) == w.paramTypes
getReturnType(w) == w.returnTypeName

---------------------------------------------------------------------------
(* Engine                                                                  *)

\* the keys a std::map iterates over, in its (lexicographic) order
KeyOrder == <<"", "cmd1", "cmd2">>

\* commands.find(name) != commands.end()
Found(cmds, name) == name \in DOMAIN cmds

\* commands[name] = std::move(command)
Insert(cmds, name, command) ==
    [k \in DOMAIN cmds \cup {name} |-> IF k = name THEN command ELSE cmds[k]]

register_command_acceptsEmptyName(cmds, command, name) ==
    IF command = NullCommand
      THEN [out |-> Throw(ConfigurationError, "Cannot register null command", name),
            commands |-> cmds, destroyed |-> 0]
    ELSE IF Found(cmds, name)
      THEN [out |-> Throw(ConflictError, "Command already registered", name),
            commands |-> cmds, destroyed |-> 1]
    ELSE [out |-> [NoOutcome EXCEPT !.kind = OK],
          commands |-> Insert(cmds, name, command), destroyed |-> 0]

register_command_nameFirst(cmds, command, name) ==
    IF name = ""
      THEN [out |-> Throw(ValidationError, "Cannot register command with empty name", ""),
            commands |-> cmds, destroyed |-> IF command = NullCommand THEN 0 ELSE 1]
    ELSE IF command = NullCommand
      THEN [out |-> Throw(ConfigurationError, "Cannot register null command", name),
            commands |-> cmds, destroyed |-> 0]
    ELSE IF Found(cmds, name)
      THEN [out |-> Throw(ConflictError, "Command already registered", name),
            commands |-> cmds, destroyed |-> 1]
    ELSE [out |-> [NoOutcome EXCEPT !.kind = OK],
          commands |-> Insert(cmds, name, command), destroyed |-> 0]

\* Engine::register_command(std::unique_ptr<Command> command, name): the
\* outcome, the map afterwards and the number of Commands destroyed (the
\* by-value parameter dies with the call when it was not moved into the map).
register_command(cmds, command, name) ==
    IF command = NullCommand
      THEN [out |-> Throw(ConfigurationError, "Cannot register null command", name),
            commands |-> cmds, destroyed |-> 0]
    ELSE IF name = ""
      THEN [out |-> Throw(ValidationError, "Cannot register command with empty name", ""),
            commands |-> cmds, destroyed |-> 1]
    ELSE IF Found(cmds, name)
      THEN [out |-> Throw(ConflictError, "Command already registered", name),
            commands |-> cmds, destroyed |-> 1]
    ELSE [out |-> [NoOutcome EXCEPT !.kind = OK],
          commands |-> Insert(cmds, name, command), destroyed |-> 0]

\* Engine::register_command(name, object, method, defaults) for a non-const
\* method: the right operand std::make_unique<Wrapper>(...) is evaluated
\* before commands[name], so a throwing constructor leaves the map alone.
register_method_overwrites(cmds, name, obj, m, defaults) ==
    LET w == Wrapper(obj, m, defaults) IN
    IF name = ""
      THEN [out |-> Throw(ValidationError, "Cannot register command with empty name", ""),
            commands |-> cmds, destroyed |-> 0]
    ELSE IF w.command = NullCommand
      THEN [out |-> w.out, commands |-> cmds, destroyed |-> 0]
    ELSE [out |-> [NoOutcome EXCEPT !.kind = OK],
          commands |-> Insert(cmds, name, w.command),
          destroyed |-> IF Found(cmds, name) THEN 1 ELSE 0]

register_method_keyFirst(cmds, name, obj, m, defaults) ==
    IF name = ""
      THEN [out |-> Throw(ValidationError, "Cannot register command with empty name", ""),
            commands |-> cmds, destroyed |-> 0]
    ELSE IF Found(cmds, name)
      THEN [out |-> Throw(ConflictError, "Command already registered", name),
            commands |-> cmds, destroyed |-> 0]
    ELSE LET w == Wrapper(obj, m, defaults)
         IN  IF w.command = NullCommand
               THEN [out |-> w.out, commands |-> Insert(cmds, name, NullCommand),
                     destroyed |-> 0]
               ELSE [out |-> [NoOutcome EXCEPT !.kind = OK],
                     commands |-> Insert(cmds, name, w.command), destroyed |-> 0]

register_method(cmds, name, obj, m, defaults) ==
    IF name = ""
      THEN [out |-> Throw(ValidationError, "Cannot register command with empty name", ""),
            commands |-> cmds, destroyed |-> 0]
    ELSE IF Found(cmds, name)
      THEN [out |-> Throw(ConflictError, "Command already registered", name),
            commands |-> cmds, destroyed |-> 0]
    ELSE LET w == Wrapper(obj, m, defaults)
         IN  IF w.command = NullCommand
               THEN [out |-> w.out, commands |-> cmds, destroyed |-> 0]
               ELSE [out |-> [NoOutcome EXCEPT !.kind = OK],
                     commands |-> Insert(cmds, name, w.command), destroyed |-> 0]

register_const_command_keyFirst(cmds, name, obj, m, defaults) ==
    IF name = ""
      THEN [out |-> Throw(ValidationError, "Cannot register command with empty name", ""),
            commands |-> cmds, destroyed |-> 0]
    ELSE IF Found(cmds, name)
      THEN [out |-> Throw(ConflictError, "Command already registered", name),
            commands |-> cmds, destroyed |-> 0]
    ELSE LET w == Wrapper(obj, m, defaults)
         IN  IF w.command = NullCommand
               THEN [out |-> w.out, commands |-> Insert(cmds, name, NullCommand),
                     destroyed |-> 0]
               ELSE [out |-> [NoOutcome EXCEPT !.kind = OK],
                     commands |-> Insert(cmds, name, w.command), destroyed |-> 0]

\* Engine::register_const_command, the same steps for a const method
register_const_command(cmds, name, obj, m, defaults) ==
    IF name = ""
      THEN [out |-> Throw(ValidationError, "Cannot register command with empty name", ""),
            commands |-> cmds, destroyed |-> 0]
    ELSE IF Found(cmds, name)
      THEN [out |-> Throw(ConflictError, "Command already registered", name),
            commands |-> cmds, destroyed |-> 0]
    ELSE LET w == Wrapper(obj, m, defaults)
         IN  IF w.command = NullCommand
               THEN [out |-> w.out, commands |-> cmds, destroyed |-> 0]
               ELSE [out |-> [NoOutcome EXCEPT !.kind = OK],
                     commands |-> Insert(cmds, name, w.command), destroyed |-> 0]

Engine_execute_lookupFirst(cmds, commandName, args) ==
    IF ~Found(cmds, commandName)
      THEN Throw(NotFoundError, "Command not found", commandName)
    ELSE IF commandName = ""
      THEN Throw(ValidationError, "Command name cannot be empty", "")
    ELSE IF cmds[commandName] = NullCommand
      THEN Throw(ConfigurationError, "Command is null", commandName)
    ELSE execute(cmds[commandName], args)

\* Engine::execute
Engine_execute(cmds, commandName, args) ==
    IF commandName = ""
      THEN Throw(ValidationError, "Command name cannot be empty", "")
    ELSE IF ~Found(cmds, commandName)
      THEN Throw(NotFoundError, "Command not found", commandName)
    ELSE IF cmds[commandName] = NullCommand
      THEN Throw(ConfigurationError, "Command is null", commandName)
    ELSE execute(cmds[commandName], args)

\* Engine::execute_as<ResultType>
execute_as_checksFirst(cmds, ResultType, commandName, args) ==
    IF commandName # "" /\ Found(cmds, commandName)
       /\ cmds[commandName] # NullCommand
       /\ getReturnType(cmds[commandName]) # ResultType
      THEN [Throw(TypeMismatchError, "Type mismatch in command result", "")
            EXCEPT !.expected = ResultType,
                   !.actual = getReturnType(cmds[commandName])]
      ELSE Engine_execute(cmds, commandName, args)

execute_as_swapsTypes(cmds, ResultType, commandName, args) ==
    LET result == Engine_execute(cmds, commandName, args) IN
    IF result.kind # OK THEN result
    ELSE IF any_cast_ok(ResultType, result.value) THEN result
    ELSE [Throw(TypeMismatchError, "Type mismatch in command result", "")
          EXCEPT !.expected = getReturnType(cmds[commandName]),
                 !.actual = ResultType,
                 !.calls = result.calls, !.bound = result.bound,
                 !.native = result.native]

execute_as(cmds, ResultType, commandName, args) ==
    LET result == Engine_execute(cmds, commandName, args) IN
    IF result.kind # OK THEN result
    ELSE IF any_cast_ok(ResultType, result.value) THEN result
    ELSE [Throw(TypeMismatchError, "Type mismatch in command result", "")
          EXCEPT !.expected = ResultType,
                 !.actual = getReturnType(cmds[commandName]),
                 !.calls = result.calls, !.bound = result.bound,
                 !.native = result.native]

\* Engine::CommandInfo
NoInfo == [paramNames |-> << >>, paramTypes |-> << >>, returnType |-> ""]

\* Engine::getCommandInfo
getCommandInfo(cmds, commandName) ==
    IF commandName = ""
      THEN [out |-> Throw(ValidationError, "Command name cannot be empty", ""),
            info |-> NoInfo]
    ELSE IF ~Found(cmds, commandName)
      THEN [out |-> Throw(NotFoundError, "Command not found", commandName),
            info |-> NoInfo]
    ELSE IF cmds[commandName] = NullCommand
      THEN [out |-> Throw(ConfigurationError, "Command is null", commandName),
            info |-> NoInfo]
    ELSE [out |-> [NoOutcome EXCEPT !.kind = OK],
          info |-> [paramNames |-> getParamNames(cmds[commandName]),
                    paramTypes |-> getParamTypes(cmds[commandName]),
                    returnType |-> getReturnType(cmds[commandName])]]

\* Engine::has_command
has_command(cmds, commandName) ==
    IF commandName = "" THEN FALSE
    ELSE Found(cmds, commandName) /\ cmds[commandName] # NullCommand

\* Engine::clear : commands.clear() erases every entry and destroys its Command
clear_resetsPointers(cmds) ==
    [commands |-> [k \in DOMAIN cmds |-> NullCommand],
     destroyed |-> Cardinality({k \in DOMAIN cmds : cmds[k] # NullCommand})]

clear(cmds) ==
    [commands |-> [k \in {} |-> NullCommand],
     destroyed |-> Cardinality({k \in DOMAIN cmds : cmds[k] # NullCommand})]

\* Engine::get_command_list : the keys with a non-null Command, in map order
get_command_list(cmds) ==
    SelectSeq(KeyOrder, LAMBDA k : Found(cmds, k) /\ cmds[k] # NullCommand)

\* Engine::command_count
command_count(cmds) ==
    Cardinality({k \in DOMAIN cmds : cmds[k] # NullCommand})

---------------------------------------------------------------------------
(* The inputs a caller draws from                                          *)

CmdNames      == {"", "cmd1", "cmd2"}
ArgNames      == {"param1", "param2", "a"}
ArgValues     == {MakeAny(T_int, 2), MakeAny(T_double, 0), MakeAny(T_double, 1)}
DefaultNames  == {"param1", "param2"}
DefaultValues == {MakeAny(T_int, 2), MakeAny(T_double, 1)}
ResultTypes   == {T_int, T_double}

SeqsUpTo(S, n) == UNION {[1..k -> S] : k \in 0..n}

NamedArgs    == {Pair(n, v) : n \in ArgNames, v \in ArgValues}
NamedDefs    == {Pair(n, v) : n \in DefaultNames, v \in DefaultValues}
ArgLists     == SeqsUpTo(NamedArgs, MaxArgs)
DefaultLists == SeqsUpTo(NamedDefs, MaxDefaults)

\* every adapter a caller can hold: the result of a constructor that returned
Adapters ==
    {Wrapper(TheSubject, m, d).command : m \in Methods, d \in DefaultLists}
        \ {NullCommand}

\* what a caller can pass as std::unique_ptr<Command>
CommandPtrs == Adapters \cup {NullCommand}

---------------------------------------------------------------------------
(* State machine                                                           *)

NoCall ==
    [op |-> "none", name |-> "", object |-> NullObject, method |-> "",
     defaults |-> << >>, command |-> NullCommand, args |-> << >>, rtype |-> "",
     out |-> NoOutcome, info |-> NoInfo, before |-> << >>, destroyed |-> 0]

Init ==
    /\ commands = << >>
    /\ last = NoCall
    /\ pc = "ready"

\* new Wrapper<...>(obj, m, defaults), held by the caller and dropped again
Bind(obj, m, defaults) ==
    /\ pc = "ready"
    /\ LET w == Wrapper(obj, m, defaults)
       IN  last' = [NoCall EXCEPT !.op = "bind", !.object = obj, !.method = m,
                                  !.defaults = defaults, !.command = w.command,
                                  !.out = w.out, !.before = commands]
    /\ pc' = "returned"
    /\ UNCHANGED commands

\* engine.register_command(std::move(command), name)
RegisterCommand(command, name) ==
    /\ pc = "ready"
    /\ LET r == register_command(commands, command, name)
       IN  /\ commands' = r.commands
           /\ last' = [NoCall EXCEPT !.op = "register_command", !.name = name,
                                     !.command = command, !.out = r.out,
                                     !.before = commands, !.destroyed = r.destroyed]
    /\ pc' = "returned"

\* engine.register_command(name, &subj, &Subject::m, defaults)
RegisterMethod(name, obj, m, defaults) ==
    /\ pc = "ready"
    /\ LET r == register_method(commands, name, obj, m, defaults)
       IN  /\ commands' = r.commands
           /\ last' = [NoCall EXCEPT !.op = "register_method", !.name = name,
                                     !.object = obj, !.method = m,
                                     !.defaults = defaults, !.out = r.out,
                                     !.before = commands, !.destroyed = r.destroyed]
    /\ pc' = "returned"

\* engine.register_const_command(name, &subj, &Subject::m, defaults)
RegisterConstCommand(name, obj, m, defaults) ==
    /\ pc = "ready"
    /\ LET r == register_const_command(commands, name, obj, m, defaults)
       IN  /\ commands' = r.commands
           /\ last' = [NoCall EXCEPT !.op = "register_const_command", !.name = name,
                                     !.object = obj, !.method = m,
                                     !.defaults = defaults, !.out = r.out,
                                     !.before = commands, !.destroyed = r.destroyed]
    /\ pc' = "returned"

Execute_insertsOnMiss(name, args) ==
    /\ pc = "ready"
    /\ last' = [NoCall EXCEPT !.op = "execute", !.name = name, !.args = args,
                              !.out = Engine_execute(commands, name, args),
                              !.before = commands]
    /\ pc' = "returned"
    /\ commands' = IF name # "" /\ ~Found(commands, name)
                     THEN Insert(commands, name, NullCommand)
                     ELSE commands

\* engine.execute(name, args)
Execute(name, args) ==
    /\ pc = "ready"
    /\ last' = [NoCall EXCEPT !.op = "execute", !.name = name, !.args = args,
                              !.out = Engine_execute(commands, name, args),
                              !.before = commands]
    /\ pc' = "returned"
    /\ UNCHANGED commands

\* engine.execute_as<R>(name, args)
ExecuteAs(R, name, args) ==
    /\ pc = "ready"
    /\ last' = [NoCall EXCEPT !.op = "execute_as", !.name = name, !.args = args,
                              !.rtype = R,
                              !.out = execute_as(commands, R, name, args),
                              !.before = commands]
    /\ pc' = "returned"
    /\ UNCHANGED commands

\* engine.getCommandInfo(name)
GetCommandInfo(name) ==
    /\ pc = "ready"
    /\ LET r == getCommandInfo(commands, name)
       IN  last' = [NoCall EXCEPT !.op = "getCommandInfo", !.name = name,
                                  !.out = r.out, !.info = r.info,
                                  !.before = commands]
    /\ pc' = "returned"
    /\ UNCHANGED commands

\* engine.clear()
Clear ==
    /\ pc = "ready"
    /\ LET r == clear(commands)
       IN  /\ commands' = r.commands
           /\ last' = [NoCall EXCEPT !.op = "clear",
                                     !.out = [NoOutcome EXCEPT !.kind = OK],
                                     !.before = commands, !.destroyed = r.destroyed]
    /\ pc' = "returned"

\* the caller drops the value returned or the exception caught
Return ==
    /\ pc = "returned"
    /\ pc' = "ready"
    /\ last' = NoCall
    /\ UNCHANGED commands

\* the caller is between two operations
Ready == pc = "ready"

Next ==
    \/ Ready /\ \E obj \in Objects, m \in Methods, d \in DefaultLists : Bind(obj, m, d)
    \/ Ready /\ \E c \in CommandPtrs, n \in CmdNames : RegisterCommand(c, n)
    \/ Ready /\ \E n \in CmdNames, obj \in Objects, m \in NonConstMethods,
                   d \in DefaultLists : RegisterMethod(n, obj, m, d)
    \/ Ready /\ \E n \in CmdNames, obj \in Objects, m \in ConstMethods,
                   d \in DefaultLists : RegisterConstCommand(n, obj, m, d)
    \/ Ready /\ \E n \in CmdNames, a \in ArgLists : Execute(n, a)
    \/ Ready /\ \E R \in ResultTypes, n \in CmdNames, a \in ArgLists : ExecuteAs(R, n, a)
    \/ Ready /\ \E n \in CmdNames : GetCommandInfo(n)
    \/ Clear
    \/ Return

Spec == Init /\ [][Next]_vars

---------------------------------------------------------------------------
(* Vocabulary of the properties                                            *)

\* an operation has returned and its outcome is in `last`
Called == pc = "returned"

IsExecute == last.op \in {"execute", "execute_as"}

IsRegister == last.op \in {"register_command", "register_method",
                           "register_const_command"}

\* the call was delegated to a registered Command
Reached == IsExecute /\ last.name # "" /\ last.name \in DOMAIN last.before

\* the Command the call was delegated to
Target == last.before[last.name]

\* the arity of the method an adapter is bound to
Arity(w) == ParamCount(w.method)

HasDuplicate(args) ==
    \E i, j \in 1..Len(args) : i < j /\ args[i].first = args[j].first

Supplied(args, n) == \E j \in 1..Len(args) : args[j].first = n

\* the value supplied under name n in a duplicate-free list
ValueOf(args, n) == args[CHOOSE j \in 1..Len(args) : args[j].first = n].second

\* every supplied parameter carries a value of its declared type
WellTyped(w, args) ==
    \A i \in 1..Arity(w) :
        Supplied(args, w.paramNames[i])
            => ValueOf(args, w.paramNames[i]).tag = ArgTypesOf(w.method)[i]

\* the error was raised by Wrapper::execute while reconciling the arguments
BindingError(o) ==
    \/ o.kind \in {DuplicateArgumentError, MissingArgumentError}
    \/ o.kind = TypeMismatchError /\ o.msg = "Type mismatch for argument"

\* the error was raised after the bound method had been invoked
RaisedAfterInvocation(o) ==
    \/ o.kind = NativeError
    \/ o.kind = TypeMismatchError /\ o.msg = "Type mismatch in command result"

---------------------------------------------------------------------------
(* Properties                                                              *)

\* C1: a Wrapper::execute call that fails with a duplicate-argument,
\* missing-argument or argument type-mismatch error invoked the bound method
\* zero times; one that succeeds invoked it exactly once, after all n
\* positions were bound; no call invokes it more than once.
C1_NoPartialSideEffects ==
    (Called /\ Reached) =>
        /\ last.out.calls <= 1
        /\ BindingError(last.out) =>
               last.out.calls = 0 /\ last.out.native = << >>
        /\ last.out.kind = OK =>
               /\ last.out.calls = 1
               /\ last.out.bound = Arity(Target)
               /\ Len(last.out.native) = Arity(Target)

\* C1 witness: position 1 was bound, position 2 failed to narrow, and the
\* method was not invoked
C1_Witness ==
    /\ Called /\ last.op = "execute" /\ Reached
    /\ Arity(Target) = 2
    /\ last.out.kind = TypeMismatchError
    /\ last.out.bound = 1
    /\ last.out.calls = 0

\* C2 as stated: every Engine execute / execute_as call either returns a
\* value after exactly one invocation of the bound method, or reports an
\* error after none.
C2_Original ==
    (Called /\ IsExecute) =>
        \/ last.out.kind = OK /\ last.out.calls = 1
        \/ last.out.kind # OK /\ last.out.calls = 0

\* C2 amended: a call that returns a value ran the bound method exactly once;
\* a call that reports an error ran it zero times, except that the
\* result-narrowing TypeMismatchError of execute_as and an error raised by
\* the bound method itself are reported after exactly one invocation.
C2_RunsOnceOrReportsBeforeRunning ==
    (Called /\ IsExecute) =>
        /\ last.out.kind = OK => last.out.calls = 1
        /\ last.out.kind # OK =>
               last.out.calls = (IF RaisedAfterInvocation(last.out) THEN 1 ELSE 0)

\* C2 witness: execute_as reported a result type mismatch after the method ran
C2_Witness ==
    /\ Called /\ last.op = "execute_as" /\ Reached
    /\ last.out.kind = TypeMismatchError
    /\ last.out.msg = "Type mismatch in command result"
    /\ last.out.calls = 1

\* the native arguments the claim C3 expects: the supplied value where the
\* parameter's name is present, the default of the position otherwise
ExpectedNative(w, args) ==
    [i \in 1..Arity(w) |->
        IF Supplied(args, w.paramNames[i])
          THEN ValueOf(args, w.paramNames[i]).val
          ELSE w.defaults[i].second.val]

\* each parameter is supplied with its declared type or, when the adapter has
\* defaults, omitted
FullyResolvable(w, args) ==
    /\ ~HasDuplicate(args)
    /\ WellTyped(w, args)
    /\ \A i \in 1..Arity(w) : Supplied(args, w.paramNames[i]) \/ w.defaults # << >>

\* C3: for a duplicate-free list in which every parameter is supplied with a
\* value of its declared type or defaulted, execute invokes the bound method
\* on v_1..v_n (supplied value if present, default otherwise) and returns
\* exactly its value.
C3_ExecuteEqualsDirectCall ==
    (Called /\ last.op = "execute" /\ Reached /\ FullyResolvable(Target, last.args)) =>
        LET v == ExpectedNative(Target, last.args)
            r == Invoke(Target.method, v)
        IN  /\ last.out.native = v
            /\ last.out.calls = 1
            /\ ~r.threw =>
                  /\ last.out.kind = OK
                  /\ last.out.value = MakeAny(ReturnTypeOf(Target.method), r.val)

\* C3 witness: a supplied value that differs from the default of its position
\* took precedence over it
C3_Witness ==
    /\ Called /\ last.op = "execute" /\ Reached
    /\ FullyResolvable(Target, last.args)
    /\ Target.defaults # << >>
    /\ \E i \in 1..Arity(Target) :
          /\ Supplied(last.args, Target.paramNames[i])
          /\ ValueOf(last.args, Target.paramNames[i]) # Target.defaults[i].second
          /\ \E k \in 1..Arity(Target) : ~Supplied(last.args, Target.paramNames[k])
    /\ last.out.kind = OK
    /\ last.out.value.val = 0

\* the argument list a command is probed with after an operation
ProbeArgs == {<< >>}

\* has / info / execute reach the same Command under name n in both maps
SameCommand(before, after, n) ==
    /\ has_command(after, n) = has_command(before, n)
    /\ getCommandInfo(after, n) = getCommandInfo(before, n)
    /\ \A a \in ProbeArgs : Engine_execute(after, n, a) = Engine_execute(before, n, a)

\* C4 as stated: any registration under a name already present fails with
\* ConflictError and leaves the registry unchanged.
C4_Original ==
    (Called /\ IsRegister /\ last.name \in DOMAIN last.before) =>
        /\ last.out.kind = ConflictError
        /\ commands = last.before

\* C4 amended: registering under a name already present leaves the registry
\* unchanged and the first command reachable through has / info / execute;
\* it fails with ConflictError, for both entry points, except that
\* register(name, command) with a null command fails with ConfigurationError,
\* the null check coming first.
C4_DuplicateNameRejected ==
    (Called /\ IsRegister /\ last.name \in DOMAIN last.before) =>
        /\ last.out.kind =
              (IF last.op = "register_command" /\ last.command = NullCommand
                 THEN ConfigurationError ELSE ConflictError)
        /\ commands = last.before
        /\ commands[last.name] = last.before[last.name]
        /\ SameCommand(last.before, commands, last.name)

\* C4 witness: a second, different and valid adapter was offered under a
\* taken name and refused
C4_Witness ==
    /\ Called /\ last.op = "register_method"
    /\ last.name \in DOMAIN last.before
    /\ Wrapper(last.object, last.method, last.defaults).command # NullCommand
    /\ Wrapper(last.object, last.method, last.defaults).command
           # last.before[last.name]
    /\ last.out.kind = ConflictError
    /\ commands = last.before

\* a constructor was run on a non-null receiver: by `new Wrapper`, or by a
\* convenience registration that got past its name checks
Constructed ==
    /\ last.object = TheSubject
    /\ \/ last.op = "bind"
       \/ /\ last.op \in {"register_method", "register_const_command"}
          /\ last.name # ""
          /\ last.name \notin DOMAIN last.before

\* C5: binding with a non-empty defaults list whose length differs from the
\* arity fails with ConfigurationError and yields no adapter.
C5_PartialDefaultsRejected ==
    (Called /\ Constructed /\ last.defaults # << >>
        /\ Len(last.defaults) # ParamCount(last.method)) =>
        /\ last.out.kind = ConfigurationError
        /\ last.out.msg = "Parameter count mismatch"
        /\ last.command = NullCommand
        /\ commands = last.before

\* C5 witness: a defaults list longer than the arity of a method that takes
\* arguments, every value of the right type
C5_Witness ==
    /\ Called /\ last.op = "bind" /\ last.object = TheSubject
    /\ ParamCount(last.method) > 0
    /\ Len(last.defaults) > ParamCount(last.method)
    /\ \A i \in 1..Len(last.defaults) :
           last.defaults[i].second.tag = ArgTypesOf(last.method)[1]
    /\ last.out.kind = ConfigurationError

\* the positions of a full defaults list whose value has the wrong type
BadDefaults(m, defaults) ==
    {i \in 1..ParamCount(m) : defaults[i].second.tag # ArgTypesOf(m)[i]}

\* every default of adapter w has the declared type of its position
DefaultsWellTyped(w) ==
    w.defaults # << >> =>
        /\ Len(w.defaults) = Arity(w)
        /\ BadDefaults(w.method, w.defaults) = {}

\* C6: a full-length defaults list with a badly typed value fails at
\* construction with ConfigurationError naming a badly typed parameter (the
\* first one); so no registered or registrable adapter holds a badly typed
\* default and no execute call fails on one.
C6_BadDefaultRejectedAtConstruction ==
    /\ (Called /\ Constructed /\ last.defaults # << >>
           /\ Len(last.defaults) = ParamCount(last.method)
           /\ BadDefaults(last.method, last.defaults) # {}) =>
          /\ last.out.kind = ConfigurationError
          /\ last.out.msg = "Default value type mismatch for parameter"
          /\ \E i \in BadDefaults(last.method, last.defaults) :
                /\ last.out.param = last.defaults[i].first
                /\ \A j \in BadDefaults(last.method, last.defaults) : i <= j
          /\ last.command = NullCommand
          /\ commands = last.before
    /\ \A n \in DOMAIN commands :
          commands[n] # NullCommand /\ DefaultsWellTyped(commands[n])
    /\ (Called /\ last.op \in {"bind", "register_command"}
           /\ last.command # NullCommand) => DefaultsWellTyped(last.command)
    /\ (Called /\ IsExecute) => last.out.kind # BadAnyCast

\* C6 witness: only the second default is badly typed
C6_Witness ==
    /\ Called /\ last.op = "bind" /\ last.object = TheSubject
    /\ Len(last.defaults) = 2 /\ ParamCount(last.method) = 2
    /\ BadDefaults(last.method, last.defaults) = {2}
    /\ last.out.kind = ConfigurationError
    /\ last.out.param = last.defaults[2].first

\* C7: execute on an argument list that repeats a name fails with
\* DuplicateArgumentError naming a repeated name, whatever else is wrong with
\* the list, and the method is not invoked.
C7_DuplicateArgumentRejected ==
    (Called /\ Reached /\ HasDuplicate(last.args)) =>
        /\ last.out.kind = DuplicateArgumentError
        /\ \E i, j \in 1..Len(last.args) :
              i < j /\ last.args[i].first = last.args[j].first
                    /\ last.out.param = last.args[j].first
        /\ last.out.calls = 0

\* C7 witness: the repeated name is no parameter name, its two values differ,
\* and both required parameters are missing as well
C7_Witness ==
    /\ Called /\ last.op = "execute" /\ Reached
    /\ Arity(Target) = 2 /\ Target.defaults = << >>
    /\ Len(last.args) = 2
    /\ last.args[1].first = last.args[2].first
    /\ last.args[1].second # last.args[2].second
    /\ \A i \in 1..2 : Target.paramNames[i] # last.args[1].first
    /\ last.out.kind = DuplicateArgumentError

\* a required parameter is missing from a list that is otherwise in order
MissingRequired(w, args) ==
    /\ Arity(w) > 0 /\ w.defaults = << >>
    /\ ~HasDuplicate(args)
    /\ WellTyped(w, args)
    /\ \E i \in 1..Arity(w) : ~Supplied(args, w.paramNames[i])

\* the adapters for the method of w bound with a full valid default set that
\* carries the parameter names of w
DefaultedTwins(w) ==
    {Wrapper(TheSubject, w.method,
             [i \in 1..Arity(w) |-> Pair(w.paramNames[i], v[i])]).command :
        v \in [1..Arity(w) -> DefaultValues]} \ {NullCommand}

\* C8 as stated: such a call fails with MissingArgumentError, and the
\* identical list succeeds on every defaulted twin of the adapter.
C8_Original ==
    (Called /\ last.op = "execute" /\ Reached /\ MissingRequired(Target, last.args)) =>
        /\ last.out.kind = MissingArgumentError
        /\ \A t \in DefaultedTwins(Target) : execute(t, last.args).kind = OK

\* C8 amended: such a call fails with MissingArgumentError without invoking
\* the method; on every defaulted twin the identical list binds all positions
\* and invokes the method exactly once, which succeeds unless the bound
\* method itself raises an error.
C8_MissingRequiredArgument ==
    (Called /\ last.op = "execute" /\ Reached /\ MissingRequired(Target, last.args)) =>
        /\ last.out.kind = MissingArgumentError
        /\ last.out.calls = 0
        /\ \A t \in DefaultedTwins(Target) :
              LET o == execute(t, last.args)
                  r == Invoke(t.method, ExpectedNative(t, last.args))
              IN  /\ o.calls = 1
                  /\ o.bound = Arity(t)
                  /\ o.kind = (IF r.threw THEN NativeError ELSE OK)

\* C8 witness: the list is as long as the parameter list, so the missing
\* parameter is found by fillArg, and a defaulted twin exists
C8_Witness ==
    /\ Called /\ last.op = "execute" /\ Reached
    /\ MissingRequired(Target, last.args)
    /\ Len(last.args) = Arity(Target)
    /\ \E i \in 1..Arity(Target) : Supplied(last.args, Target.paramNames[i])
    /\ DefaultedTwins(Target) # {}
    /\ last.out.msg = "Argument not provided and no default value"

\* C9: when the delegated call succeeds, execute_as<R> fails with
\* TypeMismatchError reporting the declared return type and R if R differs
\* from the declared return type, and returns what execute returns if not.
C9_TypedResult ==
    (Called /\ last.op = "execute_as" /\ Reached) =>
        LET e == Engine_execute(last.before, last.name, last.args) IN
        e.kind = OK =>
            IF last.rtype # ReturnTypeOf(Target.method)
              THEN /\ last.out.kind = TypeMismatchError
                   /\ last.out.actual = ReturnTypeOf(Target.method)
                   /\ last.out.expected = last.rtype
                   /\ last.out.value = NoValue
              ELSE /\ last.out.kind = OK
                   /\ last.out = e

\* C9 witness: a command returning double was asked for an int
C9_Witness ==
    /\ Called /\ last.op = "execute_as" /\ Reached
    /\ ReturnTypeOf(Target.method) = T_double
    /\ last.rtype = T_int
    /\ last.out.kind = TypeMismatchError
    /\ last.out.actual = T_double

\* C10: after clear() the registry is empty: count() = 0, list() is empty,
\* has(x) is false for every x, execute and info on every name registered
\* before fail with NotFoundError, and every registered command was destroyed.
C10_ClearEmptiesRegistry ==
    (Called /\ last.op = "clear") =>
        /\ command_count(commands) = 0
        /\ get_command_list(commands) = << >>
        /\ \A x \in CmdNames : ~has_command(commands, x)
        /\ \A x \in DOMAIN last.before :
              /\ getCommandInfo(commands, x).out.kind = NotFoundError
              /\ \A a \in ProbeArgs :
                    Engine_execute(commands, x, a).kind = NotFoundError
        /\ last.destroyed = Cardinality(DOMAIN last.before)
        /\ DOMAIN commands = {}

\* C10 witness: two commands were registered when clear() was called
C10_Witness ==
    /\ Called /\ last.op = "clear"
    /\ command_count(last.before) = 2
    /\ has_command(last.before, "cmd1") /\ has_command(last.before, "cmd2")
    /\ command_count(commands) = 0

\* the names list() returns, as a set
Listed(cmds) == {get_command_list(cmds)[i] : i \in 1..Len(get_command_list(cmds))}

\* the names has() is asked about: every key the callers use and a foreign one
QueriedNames == CmdNames \cup {"cmd3"}

\* C11: whenever the caller is about to issue a call, that is in every
\* registry state any sequence of calls leads to, list() repeats no name,
\* count() is the number of names in list(), has(x) is true exactly for the
\* names in list(), and has("") is false.
C11_ListCountHasConsistent ==
    Ready =>
        LET l == get_command_list(commands) IN
        /\ \A i, j \in 1..Len(l) : i # j => l[i] # l[j]
        /\ command_count(commands) = Len(l)
        /\ \A x \in QueriedNames : has_command(commands, x) <=> x \in Listed(commands)
        /\ has_command(commands, "") = FALSE

\* C11 witness: exactly one of the two names is registered and the caller is
\* about to issue a call
C11_Witness ==
    /\ Ready
    /\ command_count(commands) = 1
    /\ Listed(commands) = {"cmd2"}
    /\ has_command(commands, "cmd2") /\ ~has_command(commands, "cmd1")

\* the errors of a call that the caller can cause and recover from
CallTimeError(o) ==
    o.kind \in {ValidationError, NotFoundError, DuplicateArgumentError,
                MissingArgumentError, TypeMismatchError}

\* C12: an execute / execute_as call that ends in a call-time error leaves
\* the registry as it was: the same names, each mapped to the same command
\* with the same parameter names, parameter types, return type and defaults.
\* What a later call returns depends on the registry alone, so it is what it
\* would have been without the failed call.
C12_FailedCallLeavesRegistry ==
    (Called /\ IsExecute /\ CallTimeError(last.out)) =>
        /\ DOMAIN commands = DOMAIN last.before
        /\ \A n \in DOMAIN last.before :
              /\ commands[n].paramNames = last.before[n].paramNames
              /\ commands[n].paramTypes = last.before[n].paramTypes
              /\ commands[n].returnTypeName = last.before[n].returnTypeName
              /\ commands[n].defaults = last.before[n].defaults
              /\ commands[n] = last.before[n]
        /\ commands = last.before

\* C12 witness: a call on an unregistered name failed while another command,
\* callable without arguments, was registered
C12_Witness ==
    /\ Called /\ last.op = "execute" /\ last.name = "cmd2"
    /\ last.out.kind = NotFoundError
    /\ has_command(commands, "cmd1") /\ ~has_command(commands, "cmd2")
    /\ commands["cmd1"].defaults # << >>
    /\ Engine_execute(commands, "cmd1", << >>).kind = OK

\* C13: Engine execute and info fail with ValidationError on the empty name
\* and with NotFoundError on a non-empty unregistered name, invoking nothing;
\* on a registered name execute returns exactly what the command registered
\* under that name returns for the same arguments, and info returns that
\* command's parameter names, parameter types and return type.
C13_LookupThenDelegate ==
    /\ (Called /\ last.op = "execute") =>
          IF last.name = ""
            THEN last.out.kind = ValidationError /\ last.out.calls = 0
          ELSE IF last.name \notin DOMAIN last.before
            THEN /\ last.out.kind = NotFoundError
                 /\ last.out.param = last.name
                 /\ last.out.calls = 0
          ELSE /\ last.out = execute(Target, last.args)
               /\ last.out.calls <= 1
    /\ (Called /\ last.op = "getCommandInfo") =>
          IF last.name = ""
            THEN last.out.kind = ValidationError /\ last.info = NoInfo
          ELSE IF last.name \notin DOMAIN last.before
            THEN /\ last.out.kind = NotFoundError
                 /\ last.out.param = last.name
                 /\ last.info = NoInfo
          ELSE /\ last.out.kind = OK
               /\ last.info.paramNames = Target.paramNames
               /\ last.info.paramTypes = Target.paramTypes
               /\ last.info.returnType = Target.returnTypeName
               /\ last.out.calls = 0

\* C13 witness: info was asked for an unregistered name while a command with
\* two parameters was registered under another name
C13_Witness ==
    /\ Called /\ last.op = "getCommandInfo" /\ last.name = "cmd1"
    /\ last.name \notin DOMAIN last.before
    /\ "cmd2" \in DOMAIN last.before
    /\ Len(last.before["cmd2"].paramNames) = 2
    /\ last.out.kind = NotFoundError

\* register(name, command) with a non-empty free name and a non-null command
\* succeeded: the command is reachable under the name and nothing else moved
RegisteredAs(before, after, name, command) ==
    /\ has_command(after, name)
    /\ command_count(after) = command_count(before) + 1
    /\ after[name] = command
    /\ \A a \in ProbeArgs : Engine_execute(after, name, a) = execute(command, a)
    /\ getCommandInfo(after, name).info.paramNames = command.paramNames
    /\ \A k \in DOMAIN before : after[k] = before[k]

\* C14 as stated: register(name, command) fails with ValidationError when the
\* name is empty and with ConfigurationError when the command is null, the
\* registry unchanged; with a free non-empty name and a non-null command it
\* succeeds.
C14_Original ==
    (Called /\ last.op = "register_command") =>
        /\ last.name = "" =>
              last.out.kind = ValidationError /\ commands = last.before
        /\ last.command = NullCommand =>
              last.out.kind = ConfigurationError /\ commands = last.before
        /\ (last.name # "" /\ last.name \notin DOMAIN last.before
               /\ last.command # NullCommand) =>
              /\ last.out.kind = OK
              /\ RegisteredAs(last.before, commands, last.name, last.command)

\* C14 amended: register(name, command) fails with ConfigurationError when
\* the command is null, whatever the name, and with ValidationError when the
\* name is empty and the command is not null; in both cases the registry is
\* unchanged. With a free non-empty name and a non-null command it succeeds:
\* has(name) is true, count() grew by one and execute(name, ...) reaches the
\* command.
C14_RegisterValidatesCommandThenName ==
    (Called /\ last.op = "register_command") =>
        /\ last.command = NullCommand =>
              /\ last.out.kind = ConfigurationError
              /\ last.out.msg = "Cannot register null command"
              /\ commands = last.before
        /\ (last.name = "" /\ last.command # NullCommand) =>
              /\ last.out.kind = ValidationError
              /\ commands = last.before
        /\ (last.name # "" /\ last.name \notin DOMAIN last.before
               /\ last.command # NullCommand) =>
              /\ last.out.kind = OK
              /\ RegisteredAs(last.before, commands, last.name, last.command)

\* C14 witness: a null command was offered under the empty name
C14_Witness ==
    /\ Called /\ last.op = "register_command"
    /\ last.name = "" /\ last.command = NullCommand
    /\ last.out.kind = ConfigurationError
    /\ commands = last.before

\* a convenience registration under a free non-empty name
ConvenienceOnFreeName ==
    /\ last.op \in {"register_method", "register_const_command"}
    /\ last.name # ""
    /\ last.name \notin DOMAIN last.before

\* C15: when a convenience registration under a free non-empty name fails in
\* the adapter's constructor, the constructor's ConfigurationError is
\* reported unchanged and nothing is registered: has(name) is false, count()
\* and list() are as before, the map holds no entry for the name, and a
\* valid registration under the same name succeeds afterwards.
C15_FailedConstructionRegistersNothing ==
    (Called /\ ConvenienceOnFreeName) =>
        LET w == Wrapper(last.object, last.method, last.defaults) IN
        w.command = NullCommand =>
            /\ last.out.kind = ConfigurationError
            /\ last.out = w.out
            /\ ~has_command(commands, last.name)
            /\ command_count(commands) = command_count(last.before)
            /\ get_command_list(commands) = get_command_list(last.before)
            /\ last.name \notin DOMAIN commands
            /\ commands = last.before
            /\ register_method(commands, last.name, TheSubject, "f0", << >>).out.kind = OK
            /\ register_const_command(commands, last.name, TheSubject,
                                      "getValue", << >>).out.kind = OK

\* C15 witness: with one command registered, a const method was offered under
\* a free name with a full defaults list holding a badly typed value
C15_Witness ==
    /\ Called /\ last.op = "register_const_command" /\ ConvenienceOnFreeName
    /\ last.object = TheSubject
    /\ ParamCount(last.method) = 1 /\ Len(last.defaults) = 1
    /\ BadDefaults(last.method, last.defaults) = {1}
    /\ last.out.kind = ConfigurationError
    /\ command_count(last.before) = 1
    /\ command_count(commands) = 1

\* the parameter names an adapter bound without defaults is expected to carry
GeneratedNames == <<"param1", "param2">>

\* paramNames and paramTypes of adapter w, bound to its method with the
\* defaults list d, are as long as the arity and aligned with the signature
AlignedParamInfo(w, d) ==
    /\ Len(w.paramNames) = Arity(w)
    /\ Len(w.paramTypes) = Arity(w)
    /\ \A i \in 1..Arity(w) :
          /\ w.paramTypes[i] = ArgTypesOf(w.method)[i]
          /\ w.paramNames[i] = (IF d # << >> THEN d[i].first ELSE GeneratedNames[i])
    /\ Arity(w) = 0 => w.paramNames = << >> /\ w.paramTypes = << >>

\* C16: every successfully constructed adapter of arity n has n parameter
\* names and n parameter types, position by position those of the signature;
\* the names are those of the defaults in the order supplied, or param1 ..
\* paramN when no defaults were supplied; both are empty for n = 0.
C16_ParamInfoAligned ==
    /\ (Called /\ last.op = "bind" /\ last.command # NullCommand) =>
          /\ AlignedParamInfo(last.command, last.defaults)
          /\ last.command.defaults = last.defaults
    /\ (Called /\ ConvenienceOnFreeName /\ last.out.kind = OK) =>
          AlignedParamInfo(commands[last.name], last.defaults)
    /\ (Called /\ IsRegister /\ last.out.kind = OK) =>
          /\ AlignedParamInfo(commands[last.name], commands[last.name].defaults)
          /\ getCommandInfo(commands, last.name).info.paramNames
                 = commands[last.name].paramNames
          /\ getCommandInfo(commands, last.name).info.paramTypes
                 = commands[last.name].paramTypes

\* C16 witness: a two-parameter method was bound with defaults named in the
\* reverse of the generated order
C16_Witness ==
    /\ Called /\ last.op = "bind" /\ last.command # NullCommand
    /\ Arity(last.command) = 2
    /\ Firsts(last.defaults) = <<"param2", "param1">>
    /\ last.command.paramNames = <<"param2", "param1">>
    /\ last.command.paramTypes = <<T_double, T_double>>

\* position i of adapter w is the lowest one whose parameter is absent from args
LowestAbsent(w, args, i) ==
    /\ i \in 1..Arity(w)
    /\ ~Supplied(args, w.paramNames[i])
    /\ \A j \in 1..(i - 1) : Supplied(args, w.paramNames[j])

\* an execute call on an adapter bound without defaults failed with
\* MissingArgumentError
MissingOnUndefaulted ==
    /\ Called /\ IsExecute /\ Reached
    /\ Target.defaults = << >>
    /\ last.out.kind = MissingArgumentError

\* C17 as stated: on an adapter bound without defaults a MissingArgumentError
\* names a parameter that is absent from args, the one of lowest index, and
\* never a parameter the caller supplied.
C17_Original ==
    MissingOnUndefaulted =>
        /\ ~Supplied(last.args, last.out.param)
        /\ \E i \in 1..Arity(Target) :
              LowestAbsent(Target, last.args, i) /\ last.out.param = Target.paramNames[i]

\* C17, what the code does: when args has fewer entries than the adapter has
\* parameters, the error names the parameter at index args.size(), whether
\* or not the caller supplied it; only a list at least as long as the
\* parameter list gets the lowest-index absent parameter named.
C17_MissingNamedByCount ==
    MissingOnUndefaulted =>
        IF Len(last.args) < Arity(Target)
          THEN /\ last.out.msg = "Missing required argument"
               /\ last.out.param = Target.paramNames[Len(last.args) + 1]
          ELSE /\ last.out.msg = "Argument not provided and no default value"
               /\ \E i \in 1..Arity(Target) :
                     /\ LowestAbsent(Target, last.args, i)
                     /\ last.out.param = Target.paramNames[i]

\* C17 witness: execute({param2: v}) on a two-parameter adapter without
\* defaults reported param2, which was supplied, as missing
C17_Witness ==
    /\ MissingOnUndefaulted
    /\ Arity(Target) = 2
    /\ Firsts(last.args) = <<"param2">>
    /\ Target.paramNames = <<"param1", "param2">>
    /\ last.out.param = "param2"

\* the positions of adapter w that cannot be reconciled with args: a supplied
\* value of the wrong type, or no value and no default
FailingPositions(w, args) ==
    {i \in 1..Arity(w) :
        IF Supplied(args, w.paramNames[i])
          THEN ValueOf(args, w.paramNames[i]).tag # ArgTypesOf(w.method)[i]
          ELSE w.defaults = << >>}

\* the outcome reports the failure of position i of adapter w
ReportsPosition(o, w, args, i) ==
    IF Supplied(args, w.paramNames[i])
      THEN /\ o.kind = TypeMismatchError
           /\ o.msg = "Type mismatch for argument"
           /\ o.param = w.paramNames[i]
           /\ o.expected = ArgTypesOf(w.method)[i]
      ELSE o.kind = MissingArgumentError

\* an execute call with a duplicate-free list reached an adapter that takes
\* arguments
ReconciledCall ==
    /\ Called /\ IsExecute /\ Reached
    /\ ~HasDuplicate(last.args)
    /\ Arity(Target) > 0

\* C18 as stated: with a duplicate-free list execute reports the error of the
\* lowest position that fails: TypeMismatchError naming the parameter when
\* that position holds a wrongly typed value, even if a higher position is
\* missing, and MissingArgumentError only when that position is absent and
\* required; when no position fails it reports neither.
C18_Original ==
    ReconciledCall =>
        LET F == FailingPositions(Target, last.args) IN
        IF F = {}
          THEN ~BindingError(last.out)
          ELSE ReportsPosition(last.out, Target, last.args,
                               CHOOSE i \in F : \A j \in F : i <= j)

\* C18, what the code does: an adapter without defaults that is handed fewer
\* entries than it has parameters fails with MissingArgumentError before any
\* position is reconciled, whatever the types of the supplied values; every
\* other call reports the error of the lowest failing position.
C18_LowestFailingUnlessShort ==
    ReconciledCall =>
        LET F == FailingPositions(Target, last.args) IN
        IF Target.defaults = << >> /\ Len(last.args) < Arity(Target)
          THEN /\ last.out.kind = MissingArgumentError
               /\ last.out.bound = 0
          ELSE IF F = {}
            THEN ~BindingError(last.out)
            ELSE LET i == CHOOSE i \in F : \A j \in F : i <= j
                 IN  /\ ReportsPosition(last.out, Target, last.args, i)
                     /\ last.out.bound = i - 1

\* C18 witness: the only argument is a wrongly typed value for position 1 of
\* a two-parameter adapter without defaults, and the call reported a missing
\* argument
C18_Witness ==
    /\ ReconciledCall
    /\ Arity(Target) = 2 /\ Target.defaults = << >>
    /\ Len(last.args) = 1
    /\ last.args[1].first = Target.paramNames[1]
    /\ last.args[1].second.tag # ArgTypesOf(Target.method)[1]
    /\ last.out.kind = MissingArgumentError

\* the positions of adapter w for which args holds a value of another type
\* than the declared one
WronglyTyped(w, args) ==
    {i \in 1..Arity(w) :
        /\ Supplied(args, w.paramNames[i])
        /\ ValueOf(args, w.paramNames[i]).tag # ArgTypesOf(w.method)[i]}

\* the outcome is the argument type mismatch of position i of adapter w
MismatchAt(o, w, i) ==
    /\ o.kind = TypeMismatchError
    /\ o.msg = "Type mismatch for argument"
    /\ o.param = w.paramNames[i]
    /\ o.expected = ArgTypesOf(w.method)[i]

\* C19 as stated, for a duplicate-free list and a wrongly typed position
\* below which no position fails: execute fails with TypeMismatchError naming
\* the parameter and its expected tag, for adapters with and without defaults.
C19_Original ==
    ReconciledCall =>
        \A i \in WronglyTyped(Target, last.args) :
            (\A j \in 1..(i - 1) : j \notin FailingPositions(Target, last.args))
                => MismatchAt(last.out, Target, i)

\* C19, what the code does: a call that supplies a wrongly typed value for
\* some position never succeeds and never invokes the method, so neither a
\* value of another tag nor the default of the position is bound in its
\* place; it fails with TypeMismatchError naming the parameter and its
\* expected tag when no lower position fails, unless the adapter has no
\* defaults and args has fewer entries than there are parameters.
C19_WrongTypeNeverBinds ==
    (Called /\ IsExecute /\ Reached /\ WronglyTyped(Target, last.args) # {}) =>
        /\ BindingError(last.out)
        /\ last.out.calls = 0
        /\ last.out.native = << >>
        /\ (~HasDuplicate(last.args)
              /\ ~(Target.defaults = << >> /\ Len(last.args) < Arity(Target))) =>
              \A i \in WronglyTyped(Target, last.args) :
                  (\A j \in 1..(i - 1) : j \notin FailingPositions(Target, last.args))
                      => MismatchAt(last.out, Target, i)

\* C19 witness: an int was supplied for a double parameter of an adapter whose
\* default for that position is well typed, and the call failed on it
C19_Witness ==
    /\ Called /\ last.op = "execute" /\ Reached
    /\ Target.defaults # << >> /\ Arity(Target) = 2
    /\ Len(last.args) = 1
    /\ last.args[1].first = Target.paramNames[2]
    /\ last.args[1].first # Target.paramNames[1]
    /\ last.args[1].second.tag = T_int
    /\ ArgTypesOf(Target.method)[2] = T_double
    /\ Target.defaults[2].second.tag = T_double
    /\ MismatchAt(last.out, Target, 2)

\* a sequence in the opposite order
Reversed(s) == [i \in 1..Len(s) |-> s[Len(s) + 1 - i]]

\* an execute call with a duplicate-free, well typed list reached an adapter
\* bound with defaults
DefaultedCall ==
    /\ Called /\ IsExecute /\ Reached
    /\ Target.defaults # << >>
    /\ ~HasDuplicate(last.args)
    /\ WellTyped(Target, last.args)

\* C20: on an adapter bound with defaults the i-th native argument is the
\* value supplied under the name of the i-th default, or that default, the
\* names of the method's own arguments playing no part; the adapter bound
\* to the same method with the same defaults in the opposite order passes
\* the same values in the opposite native positions.
C20_DefaultOrderDecidesPosition ==
    DefaultedCall =>
        /\ last.out.calls = 1
        /\ Len(last.out.native) = Len(Target.defaults)
        /\ \A i \in 1..Len(Target.defaults) :
              last.out.native[i] =
                  (IF Supplied(last.args, Target.defaults[i].first)
                     THEN ValueOf(last.args, Target.defaults[i].first).val
                     ELSE Target.defaults[i].second.val)
        /\ LET twin == Wrapper(TheSubject, Target.method, Reversed(Target.defaults))
           IN  twin.command # NullCommand =>
                   /\ execute(twin.command, last.args).calls = 1
                   /\ execute(twin.command, last.args).native = Reversed(last.out.native)

\* C20 witness: the defaults name position 1 "param2"; the value supplied as
\* param2 became the first native argument of divide, which succeeded, while
\* under the opposite order it is the divisor and the method raises an error
C20_Witness ==
    /\ DefaultedCall /\ last.op = "execute"
    /\ Target.method = "divide"
    /\ Firsts(Target.defaults) = <<"param2", "param1">>
    /\ Firsts(last.args) = <<"param2">>
    /\ last.out.kind = OK
    /\ last.out.native = <<0, 1>>
    /\ execute(Wrapper(TheSubject, "divide", Reversed(Target.defaults)).command,
               last.args).kind = NativeError

\* the list s without its k-th entry
Without(s, k) == [i \in 1..(Len(s) - 1) |-> IF i < k THEN s[i] ELSE s[i + 1]]

\* the name n is a parameter name of adapter w
IsParamName(w, n) == \E i \in 1..Len(w.paramNames) : w.paramNames[i] = n

\* the entries of args whose name is no parameter name of adapter w
ForeignEntries(w, args) == {k \in 1..Len(args) : ~IsParamName(w, args[k].first)}

\* C21: entries whose name is no parameter name are ignored: when a
\* duplicate-free list holds such an entry, at any place and with a value of
\* any type, and the list without it succeeds with value v, the call
\* succeeds with v as well and invokes the method once on the same native
\* arguments. (Lists with several such entries follow one entry at a time.)
C21_ForeignArgumentsIgnored ==
    (Called /\ last.op = "execute" /\ Reached /\ ~HasDuplicate(last.args)) =>
        \A k \in ForeignEntries(Target, last.args) :
            LET base == execute(Target, Without(last.args, k))
            IN  base.kind = OK =>
                    /\ last.out.kind = OK
                    /\ last.out.value = base.value
                    /\ last.out.calls = 1
                    /\ last.out.native = base.native

\* C21 witness: a one-parameter adapter without defaults was called with its
\* argument preceded by an entry of a foreign name and another type, and
\* returned what it returns for the argument alone
C21_Witness ==
    /\ Called /\ last.op = "execute" /\ Reached
    /\ Arity(Target) = 1 /\ Target.defaults = << >>
    /\ Len(last.args) = 2
    /\ ForeignEntries(Target, last.args) = {1}
    /\ last.args[1].second.tag = T_double
    /\ last.out.kind = OK
    /\ last.out.value = MakeAny(T_int, SubjectValue * last.args[2].second.val)

\* the list s with its i-th and j-th entries exchanged
Swapped(s, i, j) ==
    [k \in 1..Len(s) |-> IF k = i THEN s[j] ELSE IF k = j THEN s[i] ELSE s[k]]

\* C22: the outcome of execute does not depend on the order of the entries of
\* args: exchanging any two entries gives the same error kind or the same
\* returned value, the method being invoked as often and on the same native
\* arguments. (Every permutation is a sequence of such exchanges.)
C22_ArgumentOrderIrrelevant ==
    (Called /\ last.op = "execute" /\ Reached) =>
        \A i, j \in 1..Len(last.args) :
            i < j =>
                LET o == execute(Target, Swapped(last.args, i, j))
                IN  /\ o.kind = last.out.kind
                    /\ o.value = last.out.value
                    /\ o.calls = last.out.calls
                    /\ o.native = last.out.native

\* C22 witness: both arguments of divide were supplied in the opposite of the
\* parameter order, with different values, and bound by name
C22_Witness ==
    /\ Called /\ last.op = "execute" /\ Reached
    /\ Target.method = "divide"
    /\ Target.paramNames = <<"param1", "param2">>
    /\ Firsts(last.args) = <<"param2", "param1">>
    /\ last.args[1].second # last.args[2].second
    /\ last.out.kind = OK
    /\ last.out.native = <<last.args[2].second.val, last.args[1].second.val>>

\* the pairs of positions of a list of names that carry the same name
Twins(names) ==
    {p \in (1..Len(names)) \X (1..Len(names)) : p[1] < p[2] /\ names[p[1]] = names[p[2]]}

\* a full-length, correctly typed defaults list for method m that names two
\* positions alike
RepeatingDefaults(m, d) ==
    /\ d # << >> /\ Len(d) = ParamCount(m)
    /\ BadDefaults(m, d) = {}
    /\ Twins(Firsts(d)) # {}

\* C23: a full-length, correctly typed defaults list that names two positions
\* alike is accepted and the adapter carries the name twice; a call that
\* supplies the name passes the one supplied value in every position of that
\* name, and a call that supplies the name twice fails with
\* DuplicateArgumentError, so two positions of one name never receive
\* different supplied values.
C23_RepeatedDefaultNameShared ==
    /\ (Called /\ Constructed /\ RepeatingDefaults(last.method, last.defaults)) =>
          /\ last.out.kind = OK
          /\ last.op = "bind" => last.command.paramNames = Firsts(last.defaults)
          /\ last.op # "bind" => commands[last.name].paramNames = Firsts(last.defaults)
    /\ (Called /\ IsExecute /\ Reached) =>
          \A p \in Twins(Target.paramNames) :
              Supplied(last.args, Target.paramNames[p[1]]) =>
                  IF HasDuplicate(last.args)
                    THEN last.out.kind = DuplicateArgumentError /\ last.out.calls = 0
                    ELSE /\ last.out.calls = 1 =>
                               /\ last.out.native[p[1]] =
                                      ValueOf(last.args, Target.paramNames[p[1]]).val
                               /\ last.out.native[p[2]] = last.out.native[p[1]]
                         /\ WellTyped(Target, last.args) => last.out.calls = 1

\* C23 witness: divide was bound with both defaults 1.0 under one name; the
\* single value 0.0 supplied under that name reached both positions, so the
\* method divided by zero
C23_Witness ==
    /\ Called /\ last.op = "execute" /\ Reached
    /\ Target.method = "divide"
    /\ Twins(Target.paramNames) = {<<1, 2>>}
    /\ Target.defaults[1].second.val = 1 /\ Target.defaults[2].second.val = 1
    /\ Len(last.args) = 1
    /\ last.args[1].first = Target.paramNames[1]
    /\ last.out.native = <<0, 0>>
    /\ last.out.kind = NativeError

\* the name x can be registered in cmds with every valid command, through
\* either entry point
Registrable(cmds, x) ==
    /\ \A c \in Adapters : register_command(cmds, c, x).out.kind = OK
    /\ register_method(cmds, x, TheSubject, "f0", << >>).out.kind = OK
    /\ register_const_command(cmds, x, TheSubject, "getValue", << >>).out.kind = OK

\* the "Command is null" branch of execute / info was taken
NullBranchTaken ==
    /\ last.op \in {"execute", "execute_as", "getCommandInfo"}
    /\ last.out.msg = "Command is null"

\* every key of the map is a non-empty string mapped to a non-null command
KeysWellFormed(cmds) == \A k \in DOMAIN cmds : k # "" /\ cmds[k] # NullCommand

\* C24 as stated: every key is non-empty and maps to a non-null command;
\* has(x) is true exactly for the keys; every name for which has is false can
\* be registered with a valid command; the "Command is null" branch is never
\* taken.
C24_Original ==
    /\ Ready =>
          /\ KeysWellFormed(commands)
          /\ \A x \in QueriedNames :
                /\ has_command(commands, x) <=> x \in DOMAIN commands
                /\ ~has_command(commands, x) => Registrable(commands, x)
    /\ Called => ~NullBranchTaken

\* C24 amended: in every registry state the caller can issue a call in, every
\* key is non-empty and maps to a non-null command; has(x) is true exactly
\* for the keys; every non-empty name for which has is false can be
\* registered with a valid command, while the empty name, for which has is
\* false too, is refused with ValidationError; the "Command is null" branch
\* of execute and info is never taken.
C24_KeysNonEmptyCommandsNonNull ==
    /\ Ready =>
          /\ KeysWellFormed(commands)
          /\ \A x \in QueriedNames :
                /\ has_command(commands, x) <=> x \in DOMAIN commands
                /\ (~has_command(commands, x) /\ x # "") => Registrable(commands, x)
          /\ ~has_command(commands, "")
          /\ \A c \in Adapters :
                register_command(commands, c, "").out.kind = ValidationError
    /\ Called => ~NullBranchTaken /\ KeysWellFormed(commands)

\* C24 witness: after a convenience registration failed in the constructor,
\* its name is no key of the map, which holds another command
C24_Witness ==
    /\ Called /\ last.op = "register_method" /\ last.name = "cmd2"
    /\ last.out.kind = ConfigurationError
    /\ DOMAIN commands = {"cmd1"}
    /\ KeysWellFormed(commands)
    /\ ~has_command(commands, "cmd2")
    /\ Registrable(commands, "cmd2")

\* every argument of the call binds and the bound method raises an error on
\* the native arguments
NativeFailure ==
    /\ Called /\ IsExecute /\ Reached
    /\ FullyResolvable(Target, last.args)
    /\ Invoke(Target.method, ExpectedNative(Target, last.args)).threw

\* a duplicate-free list that supplies 1.0 for every parameter name of w
AllOnes(w) ==
    IF Arity(w) = 2 /\ w.paramNames[1] # w.paramNames[2]
      THEN <<Pair(w.paramNames[1], MakeAny(T_double, 1)),
             Pair(w.paramNames[2], MakeAny(T_double, 1))>>
      ELSE <<Pair(w.paramNames[1], MakeAny(T_double, 1))>>

\* C25: when every argument binds and the bound method itself raises an
\* error, execute and execute_as pass that error on after exactly one
\* invocation; the registry and the adapter are unchanged, the command is
\* still registered, the same call raises the same error again and a call
\* with a non-zero divisor succeeds.
C25_NativeErrorPropagates ==
    NativeFailure =>
        /\ last.out.kind = NativeError
        /\ last.out.msg = "Division by zero"
        /\ last.out.calls = 1
        /\ last.out.native = ExpectedNative(Target, last.args)
        /\ last.out.value = NoValue
        /\ commands = last.before
        /\ commands[last.name] = Target
        /\ has_command(commands, last.name)
        /\ Engine_execute(commands, last.name, last.args).kind = NativeError
        /\ Engine_execute(commands, last.name, AllOnes(Target)) =
               [NoOutcome EXCEPT !.kind = OK, !.calls = 1, !.bound = 2,
                                 !.native = <<1, 1>>,
                                 !.value = MakeAny(T_double, 1)]

\* C25 witness: execute_as<double> on divide, bound without defaults, with
\* both arguments supplied and the divisor 0.0
C25_Witness ==
    /\ NativeFailure /\ last.op = "execute_as" /\ last.rtype = T_double
    /\ Target.method = "divide" /\ Target.defaults = << >>
    /\ Len(last.args) = 2
    /\ ValueOf(last.args, "param2") = MakeAny(T_double, 0)
    /\ last.out.kind = NativeError
    /\ last.out.calls = 1

====
